---- MODULE Spec2Model ----
(***************************************************************************)
(* Model of contactregister/helpers.py: the helper functions of the       *)
(* contactregister CLI program.                                            *)
(*                                                                         *)
(* A Python str is modelled as a sequence of one-character strings, so    *)
(* that splitting, stripping and integer parsing are computed character   *)
(* by character as the interpreter computes them.  Each behaviour is one  *)
(* call of one helper: `call` names the helper, Init draws its arguments  *)
(* (and, for try_create_dir, the filesystem it runs against).             *)
(***************************************************************************)
EXTENDS Integers, Sequences, FiniteSets, TLC

VARIABLES
    call,       \* the helper being called
    pc,         \* position of the call: "start", "loop", "done"
    query,      \* parse_query_filters: the argument
    options,    \* get_option_selection: the argument
    selected_option, \* get_option_selection: the local of that name
    consumed,   \* the lines input() has handed to the call, oldest first
    printed,    \* what the call has written to standard output, oldest first
    fs,         \* try_create_dir: the filesystem along the path, root first
    dir_log,    \* try_create_dir: the calls made so far, oldest first
    listing,    \* get_module_files: what os.listdir(dir_path) returns
    outcome     \* what the call gave back: [kind, value] (kind "none" before)

vars == <<call, pc, query, options, selected_option, consumed, printed, fs,
          dir_log, listing, outcome>>

-----------------------------------------------------------------------------
(* Bounds of the model *)

\* longest query string given to parse_query_filters
MaxQueryLen == 8

\* characters a query is made of: two letters, the separators, whitespace
QueryChars == {"a", "b", "=", ",", " "}

\* longest options list given to get_option_selection
MaxOptions == 3

\* option labels
OptionLabels == {"a", "b"}

\* most lines one call of get_option_selection is given
MaxReads == 3

\* the lines a user may type
InputLines ==
    { <<>>,
      <<"x">>,
      <<"0">>,
      <<"1">>,
      <<"2">>,
      <<"5">>,
      <<"-", "1">>,
      <<"-", "0">>,
      <<"+", "1">>,
      <<" ", "2", " ">>,
      <<"1", "_", "0">>,
      <<"1", ".", "0">>,
      <<"1", " ", "1">> }


\* deepest directory path: level k is the path of the first k components
MaxDepth == 3

\* most calls of try_create_dir in a row
MaxCalls == 2

\* most entries in the directory get_module_files lists
MaxFiles == 3

\* the entries a module directory may hold
FileNames ==
    { <<"f", "o", "o", ".", "p", "y">>,
      <<"b", "a", "r", ".", "p", "y">>,
      <<"p", "a", "y", ".", "p", "y">>,
      <<"c", "o", "p", "y", ".", "p", "y">>,
      <<"t", "y", "p", "e", "s", ".", "p", "y">>,
      <<"_", "_", "i", "n", "i", "t", "_", "_", ".", "p", "y">>,
      <<"_", "_", "m", "a", "i", "n", "_", "_", ".", "p", "y">> }

-----------------------------------------------------------------------------
(* Python str and list primitives *)

NoOutcome == [kind |-> "none", value |-> <<>>]

\* a local that is None, or holds the value v
PyNone == <<>>
Some(v) == <<v>>
Returned(v) == [kind |-> "returned", value |-> v]
Raised(type, arg) == [kind |-> "raised", value |-> <<type, arg>>]

\* str.isspace() on one character
IsSpace(c) == c = " "

\* str.lstrip(): drop leading whitespace
RECURSIVE LStrip(_)
LStrip(s) ==
    IF s = <<>> THEN <<>>
    ELSE IF IsSpace(Head(s)) THEN LStrip(Tail(s))
    ELSE s

\* str.rstrip(): drop trailing whitespace
RECURSIVE RStrip(_)
RStrip(s) ==
    IF s = <<>> THEN <<>>
    ELSE IF IsSpace(s[Len(s)]) THEN RStrip(SubSeq(s, 1, Len(s) - 1))
    ELSE s

\* a strip that forgets the trailing whitespace
StripLeadingOnly(s) == LStrip(s)

\* str.strip() with no argument
Strip(s) == RStrip(LStrip(s))

\* str.lstrip(chars): drop leading characters that are in chars
RECURSIVE LStripChars(_, _)
LStripChars(s, chars) ==
    IF s = <<>> THEN <<>>
    ELSE IF Head(s) \in chars THEN LStripChars(Tail(s), chars)
    ELSE s

\* str.rstrip(chars): drop trailing characters that are in chars
RECURSIVE RStripChars(_, _)
RStripChars(s, chars) ==
    IF s = <<>> THEN <<>>
    ELSE IF s[Len(s)] \in chars THEN RStripChars(SubSeq(s, 1, Len(s) - 1), chars)
    ELSE s

\* str.strip(chars): chars is a set of characters, not a suffix
StripChars(s, chars) == RStripChars(LStripChars(s, chars), chars)

\* str.startswith(prefix)
StartsWith(s, prefix) ==
    Len(s) >= Len(prefix) /\ SubSeq(s, 1, Len(prefix)) = prefix

\* index of the first occurrence of sep in s, 0 when there is none (str.find + 1)
RECURSIVE Find(_, _, _)
Find(s, sep, from) ==
    IF from > Len(s) THEN 0
    ELSE IF s[from] = sep THEN from
    ELSE Find(s, sep, from + 1)

\* s.split(sep): every piece between occurrences of sep, empty pieces kept
RECURSIVE Split(_, _)
Split(s, sep) ==
    LET i == Find(s, sep, 1) IN
    IF i = 0 THEN <<s>>
    ELSE <<SubSeq(s, 1, i - 1)>> \o Split(SubSeq(s, i + 1, Len(s)), sep)

\* a split that forgets the maxsplit of 1
SplitEvery(s, sep) == Split(s, sep)

\* s.split(sep, 1): at most one split, at the first occurrence of sep
SplitOnce(s, sep) ==
    LET i == Find(s, sep, 1) IN
    IF i = 0 THEN <<s>>
    ELSE <<SubSeq(s, 1, i - 1), SubSeq(s, i + 1, Len(s))>>

-----------------------------------------------------------------------------
(* int(str) and list indexing *)

Digits == {"0", "1", "2", "3", "4", "5", "6", "7", "8", "9"}

DigitValue(c) ==
    CASE c = "0" -> 0 [] c = "1" -> 1 [] c = "2" -> 2 [] c = "3" -> 3
      [] c = "4" -> 4 [] c = "5" -> 5 [] c = "6" -> 6 [] c = "7" -> 7
      [] c = "8" -> 8 [] c = "9" -> 9

\* the digits of an integer literal: digits, single underscores between them
IsDigitString(s) ==
    /\ s # <<>>
    /\ \A i \in 1..Len(s) : s[i] \in Digits \cup {"_"}
    /\ s[1] \in Digits
    /\ s[Len(s)] \in Digits
    /\ \A i \in 1..(Len(s) - 1) : ~(s[i] = "_" /\ s[i + 1] = "_")

\* value of a digit string, most significant digit first, underscores skipped
RECURSIVE DigitsValue(_, _)
DigitsValue(s, acc) ==
    IF s = <<>> THEN acc
    ELSE IF Head(s) = "_" THEN DigitsValue(Tail(s), acc)
    ELSE DigitsValue(Tail(s), 10 * acc + DigitValue(Head(s)))

\* int(s) for a str s: surrounding whitespace, an optional sign, the digits;
\* anything else raises ValueError
PyInt(s) ==
    LET t == Strip(s)
        signed == t # <<>> /\ t[1] \in {"+", "-"}
        body == IF signed THEN Tail(t) ELSE t
    IN  IF ~IsDigitString(body)
        THEN Raised("ValueError", "invalid literal for int() with base 10")
        ELSE IF signed /\ t[1] = "-"
        THEN Returned(0 - DigitsValue(body, 0))
        ELSE Returned(DigitsValue(body, 0))

\* seq[i] for a list: zero-based, negative i counted from the end
PyIndex(seq, i) ==
    IF 0 <= i /\ i < Len(seq) THEN Returned(seq[i + 1])
    ELSE IF i < 0 /\ 0 - i <= Len(seq) THEN Returned(seq[Len(seq) + i + 1])
    ELSE Raised("IndexError", "list index out of range")

-----------------------------------------------------------------------------
(* QueryFilter and parse_query_filters *)

\* QueryFilter.__init__
QueryFilter(field, pattern) ==
    [field |-> Strip(field), pattern |-> Strip(pattern)]

\* the list comprehension of parse_query_filters: one split list per segment
QueryFieldLists(q) ==
    LET fields == Split(q, ",") IN
    [i \in 1..Len(fields) |-> SplitOnce(fields[i], "=")]

\* a loop that skips a split list without a second element
RECURSIVE AppendFiltersSkipping(_, _, _)
AppendFiltersSkipping(lists, i, filters) ==
    IF i > Len(lists) THEN Returned(filters)
    ELSE IF Len(lists[i]) < 2 THEN AppendFiltersSkipping(lists, i + 1, filters)
    ELSE AppendFiltersSkipping(lists, i + 1,
                               Append(filters, QueryFilter(lists[i][1], lists[i][2])))

\* the for loop: append a QueryFilter per split list; query_filter[1] on a
\* one-element list raises IndexError, which nothing catches
RECURSIVE AppendFilters(_, _, _)
AppendFilters(lists, i, filters) ==
    IF i > Len(lists) THEN Returned(filters)
    ELSE IF Len(lists[i]) < 2 THEN Raised("IndexError", "list index out of range")
    ELSE AppendFilters(lists, i + 1,
                       Append(filters, QueryFilter(lists[i][1], lists[i][2])))

parse_query_filters(q) == AppendFilters(QueryFieldLists(q), 1, <<>>)

-----------------------------------------------------------------------------
(* get_option_selection *)

\* the default of the prompt parameter
Prompt == "Option: "
OutOfRangeMessage == "Input value is out of range, try again"
NotIntegerMessage == "Input value not a valid integer, try again"

\* a range test that lets len(options) itself through
InRangeUpToLen(v, opts) == -1 < v /\ v <= Len(opts)

\* -1 < selected_option < len(options)
InRange(v, opts) == -1 < v /\ v < Len(opts)

\* a loop body that says nothing about an integer out of range
LoopBodySilentRange(line, opts) ==
    LET parsed == PyInt(Strip(line)) IN
    IF parsed.kind = "raised"
    THEN [selected |-> PyNone, prints |-> <<NotIntegerMessage>>]
    ELSE IF ~(-1 < parsed.value /\ parsed.value < Len(opts))
    THEN [selected |-> PyNone, prints |-> <<>>]
    ELSE [selected |-> Some(parsed.value), prints |-> <<>>]

\* a loop body that does not set selected_option back to None when the
\* integer is out of range
LoopBodyKeepsOutOfRange(line, opts) ==
    LET parsed == PyInt(Strip(line)) IN
    IF parsed.kind = "raised"
    THEN [selected |-> PyNone, prints |-> <<NotIntegerMessage>>]
    ELSE IF ~(-1 < parsed.value /\ parsed.value < Len(opts))
    THEN [selected |-> Some(parsed.value), prints |-> <<OutOfRangeMessage>>]
    ELSE [selected |-> Some(parsed.value), prints |-> <<>>]

\* one pass through the loop body on the line input() returned: the new
\* selected_option and what the pass prints
LoopBody(line, opts) ==
    LET parsed == PyInt(Strip(line)) IN
    IF parsed.kind = "raised"
    THEN [selected |-> PyNone, prints |-> <<NotIntegerMessage>>]
    ELSE IF ~InRange(parsed.value, opts)
    THEN [selected |-> PyNone, prints |-> <<OutOfRangeMessage>>]
    ELSE [selected |-> Some(parsed.value), prints |-> <<>>]

-----------------------------------------------------------------------------
(* try_create_dir *)

\* what a level of the path holds; "rodir" is a directory the caller may
\* search but not write to
Kinds == {"absent", "dir", "rodir", "file"}
DirKinds == {"dir", "rodir"}

\* a filesystem: level 0 is a directory, and below a level that is no
\* directory there is nothing
IsFilesystem(f) ==
    /\ f[0] \in DirKinds
    /\ \A k \in 1..MaxDepth : f[k] # "absent" => f[k - 1] \in DirKinds

NoError == "ok"
Sys(f, errno) == [fs |-> f, errno |-> errno]

\* os.path.exists(level k): every level above is a directory and k is there
PathExists(f, k) ==
    /\ \A j \in 0..(k - 1) : f[j] \in DirKinds
    /\ f[k] # "absent"

\* the first level above k that path resolution stops at, 0 when there is none
BlockedAt(f, k) ==
    LET bad == {j \in 1..(k - 1) : f[j] \notin DirKinds} IN
    IF bad = {} THEN 0 ELSE CHOOSE j \in bad : \A i \in bad : j <= i

\* mkdir(2) on level k
Mkdir(f, k) ==
    LET b == BlockedAt(f, k) IN
    IF b # 0 THEN Sys(f, IF f[b] = "absent" THEN "ENOENT" ELSE "ENOTDIR")
    ELSE IF f[k] # "absent" THEN Sys(f, "EEXIST")
    ELSE IF f[k - 1] = "rodir" THEN Sys(f, "EACCES")
    ELSE Sys([f EXCEPT ![k] = "dir"], NoError)

\* os.makedirs(name) with exist_ok=False: make the missing parents first (a
\* FileExistsError from them is passed over), then mkdir the leaf
RECURSIVE Makedirs(_, _)
Makedirs(f, k) ==
    IF k - 1 >= 1 /\ ~PathExists(f, k - 1)
    THEN LET parent == Makedirs(f, k - 1) IN
         IF parent.errno \in {NoError, "EEXIST"}
         THEN Mkdir(parent.fs, k)
         ELSE parent
    ELSE Mkdir(f, k)

\* a try_create_dir that raises every OSError again
TryCreateDirNoCatch(f, k) ==
    LET made == Makedirs(f, k) IN
    IF made.errno = NoError THEN [fs |-> made.fs, outcome |-> Returned(PyNone)]
    ELSE [fs |-> made.fs, outcome |-> Raised("OSError", made.errno)]

\* try_create_dir(directory_path): OSError is swallowed when its errno is
\* EEXIST and raised again otherwise
try_create_dir(f, k) ==
    LET made == Makedirs(f, k) IN
    IF made.errno = NoError THEN [fs |-> made.fs, outcome |-> Returned(PyNone)]
    ELSE IF made.errno # "EEXIST"
    THEN [fs |-> made.fs, outcome |-> Raised("OSError", made.errno)]
    ELSE [fs |-> made.fs, outcome |-> Returned(PyNone)]

-----------------------------------------------------------------------------
(* get_module_files *)

\* filter(lambda x: not x.startswith("__"), os.listdir(dir_path))
ModuleFiles(names) ==
    LET Keep(x) == ~StartsWith(x, <<"_", "_">>) IN SelectSeq(names, Keep)

\* filename.strip('.py')
StripPy(filename) == StripChars(filename, {".", "p", "y"})

get_module_files(names) ==
    LET module_files == ModuleFiles(names) IN
    [i \in 1..Len(module_files) |-> StripPy(module_files[i])]

-----------------------------------------------------------------------------
(* The calls *)

InitParse ==
    /\ call = "parse_query_filters"
    /\ pc = "start"
    /\ \E n \in 0..MaxQueryLen : query \in [1..n -> QueryChars]
    /\ options = <<>>
    /\ selected_option = PyNone
    /\ consumed = <<>>
    /\ printed = <<>>
    /\ fs = [k \in 0..MaxDepth |-> IF k = 0 THEN "dir" ELSE "absent"]
    /\ dir_log = <<>>
    /\ listing = <<>>
    /\ outcome = NoOutcome

ParseQueryFilters ==
    /\ call = "parse_query_filters"
    /\ pc = "start"
    /\ outcome' = parse_query_filters(query)
    /\ pc' = "done"
    /\ UNCHANGED <<call, query, options, selected_option, consumed, printed, fs,
                   dir_log, listing>>

InitSelect ==
    /\ call = "get_option_selection"
    /\ pc = "start"
    /\ query = <<>>
    /\ \E n \in 0..MaxOptions : options \in [1..n -> OptionLabels]
    /\ selected_option = PyNone
    /\ consumed = <<>>
    /\ printed = <<>>
    /\ fs = [k \in 0..MaxDepth |-> IF k = 0 THEN "dir" ELSE "absent"]
    /\ dir_log = <<>>
    /\ listing = <<>>
    /\ outcome = NoOutcome

\* the call enters the loop: input(prompt) writes the prompt and blocks
SelectEnter ==
    /\ call = "get_option_selection"
    /\ pc = "start"
    /\ selected_option' = PyNone
    /\ printed' = Append(printed, Prompt)
    /\ pc' = "input"
    /\ UNCHANGED <<call, query, options, consumed, fs, dir_log, listing, outcome>>

\* a line arrives: the loop body runs on it; while selected_option is None the
\* loop comes round to input(prompt) again
SelectInput ==
    /\ call = "get_option_selection"
    /\ pc = "input"
    /\ Len(consumed) < MaxReads
    /\ \E line \in InputLines :
        LET body == LoopBody(line, options) IN
        /\ consumed' = Append(consumed, line)
        /\ selected_option' = body.selected
        /\ IF body.selected = PyNone
           THEN /\ printed' = printed \o body.prints \o <<Prompt>>
                /\ pc' = "input"
           ELSE /\ printed' = printed \o body.prints
                /\ pc' = "return"
    /\ UNCHANGED <<call, query, options, fs, dir_log, listing, outcome>>

\* return options[selected_option]
SelectReturn ==
    /\ call = "get_option_selection"
    /\ pc = "return"
    /\ outcome' = PyIndex(options, selected_option[1])
    /\ pc' = "done"
    /\ UNCHANGED <<call, query, options, selected_option, consumed, printed, fs,
                   dir_log, listing>>

InitDir ==
    /\ call = "try_create_dir"
    /\ pc = "start"
    /\ query = <<>>
    /\ options = <<>>
    /\ selected_option = PyNone
    /\ consumed = <<>>
    /\ printed = <<>>
    /\ fs \in [0..MaxDepth -> Kinds]
    /\ IsFilesystem(fs)
    /\ dir_log = <<>>
    /\ listing = <<>>
    /\ outcome = NoOutcome

\* one call of try_create_dir on the path of some level
TryCreateDir ==
    /\ call = "try_create_dir"
    /\ Len(dir_log) < MaxCalls
    /\ \E k \in 1..MaxDepth :
        LET r == try_create_dir(fs, k) IN
        /\ fs' = r.fs
        /\ outcome' = r.outcome
        /\ dir_log' = Append(dir_log, [path |-> k, before |-> fs,
                                       after |-> r.fs, outcome |-> r.outcome])
    /\ pc' = "done"
    /\ UNCHANGED <<call, query, options, selected_option, consumed, printed,
                   listing>>

IsListing(names) == \A i, j \in 1..Len(names) : i # j => names[i] # names[j]

InitFiles ==
    /\ call = "get_module_files"
    /\ pc = "start"
    /\ query = <<>>
    /\ options = <<>>
    /\ selected_option = PyNone
    /\ consumed = <<>>
    /\ printed = <<>>
    /\ fs = [k \in 0..MaxDepth |-> IF k = 0 THEN "dir" ELSE "absent"]
    /\ dir_log = <<>>
    /\ \E n \in 0..MaxFiles : listing \in [1..n -> FileNames]
    /\ IsListing(listing)
    /\ outcome = NoOutcome

GetModuleFiles ==
    /\ call = "get_module_files"
    /\ pc = "start"
    /\ outcome' = Returned(get_module_files(listing))
    /\ pc' = "done"
    /\ UNCHANGED <<call, query, options, selected_option, consumed, printed,
                   fs, dir_log, listing>>

NextParse == ParseQueryFilters

NextSelect == SelectEnter \/ SelectInput \/ SelectReturn

\* one call of parse_query_filters
SpecParse == InitParse /\ [][NextParse]_vars

\* one call of get_option_selection
SpecSelect == InitSelect /\ [][NextSelect]_vars

\* the same, with the interpreter running the call whenever it is not blocked
\* in input()
FairSelect ==
    SpecSelect /\ WF_vars(SelectEnter) /\ WF_vars(SelectReturn)

NextDir == TryCreateDir

NextFiles == GetModuleFiles

\* calls of try_create_dir, one after the other
SpecDir == InitDir /\ [][NextDir]_vars

\* one call of get_module_files
SpecFiles == InitFiles /\ [][NextFiles]_vars

Init == InitParse \/ InitSelect \/ InitDir \/ InitFiles

Next == NextParse \/ NextSelect \/ NextDir \/ NextFiles

Spec == Init /\ [][Next]_vars

-----------------------------------------------------------------------------
(* What a query string is, stated by position rather than by splitting *)

SetMin(S) == CHOOSE x \in S : \A y \in S : x <= y
SetMax(S) == CHOOSE x \in S : \A y \in S : x >= y

\* the stretch of s spanned by the positions in I (empty when I is)
Span(s, I) == IF I = {} THEN <<>> ELSE SubSeq(s, SetMin(I), SetMax(I))

CountOf(s, c) == Cardinality({i \in 1..Len(s) : s[i] = c})

\* a query has one segment more than it has commas
NumSegments(q) == CountOf(q, ",") + 1

\* the k-th segment: the characters with exactly k-1 commas before them
SegmentText(q, k) ==
    Span(q, {i \in 1..Len(q) :
                /\ q[i] # ","
                /\ Cardinality({j \in 1..(i - 1) : q[j] = ","}) = k - 1})

HasEq(seg) == CountOf(seg, "=") > 0

FirstEq(seg) == SetMin({i \in 1..Len(seg) : seg[i] = "="})

\* the text before, and after, the first "=" of a segment that has one
FieldText(seg) == SubSeq(seg, 1, FirstEq(seg) - 1)
PatternText(seg) == SubSeq(seg, FirstEq(seg) + 1, Len(seg))

\* s without its surrounding whitespace
Trimmed(s) == Span(s, {i \in 1..Len(s) : s[i] # " "})

\* f1=p1,...,fn=pn with every fi and pi non-empty once trimmed
WellFormedQuery(q) ==
    \A k \in 1..NumSegments(q) :
        LET seg == SegmentText(q, k) IN
        /\ HasEq(seg)
        /\ Trimmed(FieldText(seg)) # <<>>
        /\ Trimmed(PatternText(seg)) # <<>>

ParseDone == call = "parse_query_filters" /\ pc = "done"

-----------------------------------------------------------------------------
(* Claims about parse_query_filters *)

\* C1: a well-formed query of n segments fi=pi parses to exactly n records,
\* in input order, the i-th holding fi and pi without surrounding whitespace.
C1_WellFormedParse ==
    (ParseDone /\ WellFormedQuery(query)) =>
        /\ outcome.kind = "returned"
        /\ Len(outcome.value) = NumSegments(query)
        /\ \A k \in 1..NumSegments(query) :
               LET seg == SegmentText(query, k) IN
               outcome.value[k] = [field   |-> Trimmed(FieldText(seg)),
                                   pattern |-> Trimmed(PatternText(seg))]

\* two different records from a query that carries whitespace to trim
C1_Witness ==
    /\ ParseDone
    /\ WellFormedQuery(query)
    /\ NumSegments(query) = 2
    /\ CountOf(query, " ") > 0
    /\ outcome.kind = "returned"
    /\ outcome.value[1] # outcome.value[2]

\* C2: a query with a segment that has no "=" raises MalformedQuery carrying
\* the whole query string.
C2_MalformedQueryRaised ==
    (ParseDone /\ \E k \in 1..NumSegments(query) : ~HasEq(SegmentText(query, k))) =>
        /\ outcome.kind = "raised"
        /\ outcome.value[1] = "MalformedQuery"
        /\ outcome.value[2] = query

\* C3: a segment with more than one "=" is split at the first one only: the
\* field is the text before it, the pattern everything after it, later "="
\* included.
C3_SplitOnFirstEq ==
    (ParseDone /\ outcome.kind = "returned") =>
        \A k \in 1..NumSegments(query) :
            LET seg == SegmentText(query, k) IN
            CountOf(seg, "=") > 1 =>
                /\ outcome.value[k].field = Trimmed(FieldText(seg))
                /\ outcome.value[k].pattern = Trimmed(PatternText(seg))
                /\ CountOf(outcome.value[k].field, "=") = 0
                /\ CountOf(outcome.value[k].pattern, "=") = CountOf(seg, "=") - 1

\* field=a=b style: the pattern keeps a letter on both sides of its "="
C3_Witness ==
    /\ ParseDone
    /\ outcome.kind = "returned"
    /\ \E k \in 1..Len(outcome.value) :
           /\ outcome.value[k].field = <<"a">>
           /\ outcome.value[k].pattern = <<"a", "=", "b">>

-----------------------------------------------------------------------------
(* What a typed line means, listed line by line *)

\* the integer a line of InputLines denotes, as <<k>>; <<>> when it denotes none
TypedInteger(line) ==
    CASE line = <<"0">>           -> <<0>>
      [] line = <<"1">>           -> <<1>>
      [] line = <<"2">>           -> <<2>>
      [] line = <<"5">>           -> <<5>>
      [] line = <<"-", "1">>      -> <<0 - 1>>
      [] line = <<"-", "0">>      -> <<0>>
      [] line = <<"+", "1">>      -> <<1>>
      [] line = <<" ", "2", " ">> -> <<2>>
      [] line = <<"1", "_", "0">> -> <<10>>
      [] OTHER                    -> <<>>

\* the line is an integer that indexes opts
ValidLine(line, opts) ==
    /\ TypedInteger(line) # <<>>
    /\ TypedInteger(line)[1] \in 0..(Len(opts) - 1)

ValidDelivered == \E i \in 1..Len(consumed) : ValidLine(consumed[i], options)

InvalidCount == Cardinality({i \in 1..Len(consumed) : ~ValidLine(consumed[i], options)})

IsMessage(text) == text # Prompt

Messages == SelectSeq(printed, IsMessage)

Selecting == call = "get_option_selection"
SelectDone == Selecting /\ pc = "done"

-----------------------------------------------------------------------------
(* Claims about get_option_selection *)

\* C4: when get_option_selection returns, it returns options[k] for k the
\* integer of the first line that is an integer in [0, len(options)); every
\* earlier line was rejected, that line is the last one read, and k is never
\* negative.
C4_ReturnsFirstValid ==
    SelectDone =>
        /\ consumed # <<>>
        /\ ValidLine(consumed[Len(consumed)], options)
        /\ \A i \in 1..(Len(consumed) - 1) : ~ValidLine(consumed[i], options)
        /\ TypedInteger(consumed[Len(consumed)])[1] >= 0
        /\ outcome = Returned(options[TypedInteger(consumed[Len(consumed)])[1] + 1])

\* options a, b, a with the lines 5 then 1: b comes back
C4_Witness ==
    /\ SelectDone
    /\ options = <<"a", "b", "a">>
    /\ consumed = << <<"5">>, <<"1">> >>
    /\ outcome = Returned("b")

\* C5: no rejected line raises: a line that is no integer prints one 'not a
\* valid integer' message, an integer out of range one 'out of range' message,
\* each followed by the prompt again, so there are as many messages as invalid
\* lines read.
C5_RejectedLocally ==
    Selecting =>
        /\ outcome.kind # "raised"
        /\ Len(Messages) = InvalidCount
        /\ \A i \in 1..Len(consumed) :
               ~ValidLine(consumed[i], options) =>
                   /\ i <= Len(Messages)
                   /\ Messages[i] = IF TypedInteger(consumed[i]) = <<>>
                                    THEN NotIntegerMessage
                                    ELSE OutOfRangeMessage
        /\ \A j \in 1..Len(printed) :
               IsMessage(printed[j]) =>
                   j < Len(printed) /\ printed[j + 1] = Prompt

\* x, then 5, then 0 against one option: one message of each kind, then a
\* return
C5_Witness ==
    /\ SelectDone
    /\ consumed = << <<"x">>, <<"5">>, <<"0">> >>
    /\ Messages = <<NotIntegerMessage, OutOfRangeMessage>>
    /\ outcome.kind = "returned"

\* C9: the loop ends only on valid input: until a valid line has arrived the
\* call has not returned and sits at the prompt (always so when options is
\* empty), and once a valid line has arrived the call returns.
C9_EndsOnlyOnValidInput ==
    /\ [](Selecting /\ ~ValidDelivered =>
              /\ pc \in {"start", "input"}
              /\ outcome = NoOutcome
              /\ pc = "input" => printed[Len(printed)] = Prompt)
    /\ [](Selecting /\ options = <<>> => pc \notin {"return", "done"})
    /\ ((Selecting /\ ValidDelivered) ~> (pc = "done" /\ outcome.kind = "returned"))

\* a call that returned after two rejected lines
C9_Witness ==
    /\ SelectDone
    /\ Len(consumed) = 3
    /\ outcome.kind = "returned"

-----------------------------------------------------------------------------
(* Claims about try_create_dir *)

\* the deepest level above k that exists
DeepestAbove(f, k) ==
    SetMax({j \in 0..(k - 1) : \A i \in 0..j : f[i] # "absent"})

\* level k is not there and can be made: what exists above it are
\* directories, and the deepest of them can be written to
Creatable(f, k) ==
    /\ f[k] = "absent"
    /\ f[DeepestAbove(f, k)] = "dir"

\* C6: two calls in a row on the same nested path that was not there (and
\* that nothing stands in the way of making) both return without raising; the
\* path and every level above it are directories after the first call, and
\* the second call leaves the filesystem as it found it.
C6_TwiceInSuccession ==
    call = "try_create_dir" =>
        \A i \in 1..(Len(dir_log) - 1) :
            LET first == dir_log[i]
                second == dir_log[i + 1]
            IN  (/\ first.path = second.path
                 /\ first.path >= 2
                 /\ Creatable(first.before, first.path)) =>
                    /\ first.outcome = Returned(PyNone)
                    /\ second.outcome = Returned(PyNone)
                    /\ \A j \in 0..first.path : first.after[j] \in DirKinds
                    /\ second.after = second.before
                    /\ second.before = first.after

\* the deepest path made from nothing but the root, then asked for again
C6_Witness ==
    /\ call = "try_create_dir"
    /\ Len(dir_log) = 2
    /\ dir_log[1].path = 3
    /\ dir_log[2].path = 3
    /\ \A j \in 1..3 : dir_log[1].before[j] = "absent"
    /\ \A j \in 1..3 : fs[j] = "dir"
    /\ outcome = Returned(PyNone)

\* C7: whenever try_create_dir returns normally the target path is a
\* directory: every failure other than the target already being a directory
\* is raised.
C7_ReturnsOnlyWithDirectory ==
    call = "try_create_dir" =>
        \A i \in 1..Len(dir_log) :
            dir_log[i].outcome.kind = "returned" =>
                dir_log[i].after[dir_log[i].path] \in DirKinds

-----------------------------------------------------------------------------
(* Claims about get_module_files *)

\* a name without its extension: what comes before its last "."
Stem(name) ==
    LET dots == {i \in 1..Len(name) : name[i] = "."} IN
    IF dots = {} THEN name ELSE SubSeq(name, 1, SetMax(dots) - 1)

IsDunder(name) == Len(name) >= 2 /\ name[1] = "_" /\ name[2] = "_"

NotDunder(name) == ~IsDunder(name)

\* C8: get_module_files returns one entry per listed name that does not begin
\* with "__", and the entry for stem.py is exactly stem.
C8_StemsOfModuleFiles ==
    (call = "get_module_files" /\ pc = "done") =>
        LET kept == SelectSeq(listing, NotDunder) IN
        /\ outcome.kind = "returned"
        /\ Len(outcome.value) = Len(kept)
        /\ \A i \in 1..Len(kept) : outcome.value[i] = Stem(kept[i])

====
